---- MODULE Spec2Model ----
(***************************************************************************)
(* Eigenrausch: the BASE, MICRO and PULSE layer graphs, their preview and  *)
(* render sessions and the command line front end.                         *)
(*                                                                         *)
(* Units.  Audio-band frequencies are whole Hz.  Rates of the modulators   *)
(* are milli-Hz (0.05 Hz = 50).  The LFO frequency 1.0 / period is kept in *)
(* micro-Hz (1/45 Hz = 22222).  Linear depths are thousandths (0.45 = 450).*)
(* Levels are whole decibels, Q is in tenths (q = 1.2 is 12).  Sample      *)
(* counts are samples; one audio callback produces one block of BlockSize  *)
(* samples.                                                                *)
(***************************************************************************)
EXTENDS Integers, Sequences, FiniteSets, TLC

VARIABLES
    catalog,   \* the module-level dicts BASE_VARIANTS, MICRO_VARIANTS, PULSE_VARIANTS
    heap,      \* identities of the Server and layer objects created so far
    rim,       \* one random interpolated modulator (Randi), sample by sample
    mode,      \* "list" | "preview" | "render" | "render_all" | "construct"
    variant,   \* the variant name argument (-v, or the name passed to the call)
    layer,     \* "none" | "BASE" | "MICRO" | "PULSE": the layer whose function runs
    args,      \* keyword arguments handed to the layer constructor
    pc,        \* position of the main (control) thread
    srv,       \* the pyo Server of the session
    graph,     \* the constructed layer graph: a sequence of nodes, out_sig last
    rec,       \* recording state of the server
    audio,     \* counters of the audio callback thread
    err,       \* the exception that left the program, or "none"
    pending,   \* exception waiting for the end of the finally block
    report,    \* progress lines printed by the current session
    intrAt,    \* positions at which Ctrl+C was delivered in the current session
    stopBy,    \* what ended the wait of the current session
    queue,     \* render_all: the variants still to render
    clock,     \* wall clock seconds, read by the library when it seeds a generator
    prev       \* summary of an earlier run of the program (pair runs only)

vars == <<catalog, heap, rim, mode, variant, layer, args, pc, srv, graph, rec, audio, err, pending,
          report, intrAt, stopBy, queue, clock, prev>>

----------------------------------------------------------------------------
(* eigenrausch_config.py *)

SAMPLE_RATE == 48000
DURATION_SEC == 3
MASTER_OUT_DB == -10
BASE_OUT_DB == MASTER_OUT_DB
MICRO_OUT_DB == MASTER_OUT_DB
PULSE_OUT_DB == MASTER_OUT_DB
BASE_TRIM_DB == 20
MICRO_TRIM_DB == 20
PULSE_TRIM_DB == 39

\* The trims the comment above the three constants documents:
\*   BASE_A ~ -21 dB -> +20 dB,  MICRO_A ~ -2 dB -> +1 dB,  PULSE_A ~ -40 dB -> +39 dB
BASE_TRIM_DOCUMENTED == 20
MICRO_TRIM_DOCUMENTED == 1
PULSE_TRIM_DOCUMENTED == 39

\* buffersize=1024 of every Server(...) call
BlockSize == 1024

\* totalSamples = floor(durationSec * sampleRate)
totalSamples == DURATION_SEC * SAMPLE_RATE

----------------------------------------------------------------------------
(* Bounds of the model *)

\* block periods by which the control thread may lag behind the audio thread,
\* summed over one session (delays between start, recstart, sleep and recstop)
MaxDelay == 1
\* blocks a live preview plays before the user stops it
MaxPreviewBlocks == 2
\* distinct wall clock readings
MaxClock == 2

----------------------------------------------------------------------------
(* Variant catalogs *)

BASE_KEYS == <<"BASE_A", "BASE_B", "BASE_C", "BASE_D">>
MICRO_KEYS == <<"MICRO_A", "MICRO_B", "MICRO_C", "MICRO_D">>
PULSE_KEYS == <<"PULSE_A", "PULSE_B", "PULSE_C", "PULSE_D", "PULSE_CRACKLE">>

BaseParams(c, dd, dp, ad, ap) ==
    [center_freq_hz |-> c, drift_depth_hz |-> dd, drift_period_sec |-> dp,
     amp_lfo_depth |-> ad, amp_lfo_period_sec |-> ap]

MicroParams(fmin, fmax, n, amin, amax, tdb, ndb) ==
    [freq_min_hz |-> fmin, freq_max_hz |-> fmax, num_tones |-> n,
     amp_lfo_freq_min |-> amin, amp_lfo_freq_max |-> amax,
     tone_db |-> tdb, noise_db |-> ndb]

PulseParams(fmin, fmax, rmin, rmax, ndb, pdb) ==
    [freq_min_hz |-> fmin, freq_max_hz |-> fmax,
     pulse_rate_min |-> rmin, pulse_rate_max |-> rmax,
     noise_db |-> ndb, pulse_db |-> pdb]

\* A BASE catalog whose BASE_D drifts as deep as its centre frequency.
BASE_VARIANTS_drift_to_zero ==
    "BASE_A" :> BaseParams(2800, 1200, 45, 450, 30) @@
    "BASE_B" :> BaseParams(3000, 1800, 30, 550, 25) @@
    "BASE_C" :> BaseParams(1800, 900, 60, 350, 45) @@
    "BASE_D" :> BaseParams(2600, 2600, 20, 650, 20)

BASE_VARIANTS ==
    "BASE_A" :> BaseParams(2800, 1200, 45, 450, 30) @@
    "BASE_B" :> BaseParams(3000, 1800, 30, 550, 25) @@
    "BASE_C" :> BaseParams(1800, 900, 60, 350, 45) @@
    "BASE_D" :> BaseParams(2600, 2200, 20, 650, 20)

MICRO_VARIANTS ==
    "MICRO_A" :> MicroParams(6500, 8000, 8, 300, 1200, -1, -15) @@
    "MICRO_B" :> MicroParams(5500, 7500, 10, 200, 1000, -1, -16) @@
    "MICRO_C" :> MicroParams(4500, 6500, 8, 100, 600, -1, -17) @@
    "MICRO_D" :> MicroParams(3000, 5000, 6, 50, 350, -1, -18)

PULSE_VARIANTS ==
    "PULSE_A" :> PulseParams(1500, 4500, 1500, 4000, -60, -10) @@
    "PULSE_B" :> PulseParams(2500, 6000, 2000, 6000, -58, -8) @@
    "PULSE_C" :> PulseParams(800, 3000, 1000, 3000, -55, -9) @@
    "PULSE_D" :> PulseParams(1200, 4000, 500, 1500, -62, -12) @@
    "PULSE_CRACKLE" :> PulseParams(6000, 14000, 8000, 20000, -70, -18)

Layers == {"BASE", "MICRO", "PULSE"}

\* The three dicts as the modules define them
VARIANT_TABLES ==
    "BASE" :> BASE_VARIANTS @@ "MICRO" :> MICRO_VARIANTS @@ "PULSE" :> PULSE_VARIANTS

\* The dict the name X_VARIANTS refers to at the moment it is read
VARIANTS(L) == catalog[L]

KEYS(L) ==
    CASE L = "BASE" -> BASE_KEYS
      [] L = "MICRO" -> MICRO_KEYS
      [] L = "PULSE" -> PULSE_KEYS

OUT_DB(L) ==
    CASE L = "BASE" -> BASE_OUT_DB
      [] L = "MICRO" -> MICRO_OUT_DB
      [] L = "PULSE" -> PULSE_OUT_DB

TRIM_DB(L) ==
    CASE L = "BASE" -> BASE_TRIM_DB
      [] L = "MICRO" -> MICRO_TRIM_DB
      [] L = "PULSE" -> PULSE_TRIM_DB

----------------------------------------------------------------------------
(* Gain staging *)

\* The scalar factor db_to_amp(db) = 10 ** (db / 20.0).  In a graph it appears
\* as a Gain node that keeps the decibel argument of the one conversion.
Node(op, in, par, role, seed) ==
    [op |-> op, in |-> in, par |-> par, role |-> role, seed |-> seed]

db_to_amp(in, db, role) == Node("Gain", in, <<db>>, role, 0)

Abs(x) == IF x < 0 THEN 0 - x ELSE x

Max(x, y) == IF x > y THEN x ELSE y

\* The amplitude 1.0 (0 dBFS, the peak of a full-scale source) in millionths
FullScale == 1000000

\* 10 ** (r / 20.0) for r = 0..19, in millionths
TwentiethDecades ==
    << 1000000, 1122018, 1258925, 1412538, 1584893, 1778279, 1995262, 2238721,
       2511886, 2818383, 3162278, 3548134, 3981072, 4466836, 5011872, 5623413,
       6309573, 7079458, 7943282, 8912509 >>

RECURSIVE Pow10(_)
Pow10(n) == IF n = 0 THEN 1 ELSE 10 * Pow10(n - 1)

\* The value of db_to_amp(db) = 10 ** (db / 20.0), in millionths: the whole
\* decades of db / 20 shift the decimal point, the rest is read from the table.
db_to_amp_value(db) ==
    LET q == db \div 20
        r == db % 20
    IN  IF q >= 0 THEN TwentiethDecades[r + 1] * Pow10(q)
                  ELSE TwentiethDecades[r + 1] \div Pow10(0 - q)

\* The product of two amplitudes in millionths ("*" of two signals or of a
\* signal and a factor), computed in parts that stay within 32 bits.
AmpMul(x, y) ==
    LET xh == x \div 1000
        xl == x % 1000
        yh == y \div 1000
        yl == y % 1000
    IN  xh * yh + (xh * yl + xl * yh) \div 1000 + (xl * yl) \div 1000000

----------------------------------------------------------------------------
(* Layer graphs.  A graph is the sequence of the pyo objects the constructor *)
(* creates, in creation order; "in" holds the indices of the input signals.  *)
(* sb is the seed base the server hands to the random sources it creates.    *)

\* The previous EigenBase: master gain applied before the amplitude LFO.
EigenBase_gain_mid_graph(a, sb) ==
    << Node("PinkNoise", <<>>, <<>>, "noise", sb + 1),
       Node("Sine", <<>>, <<1000000 \div a.drift_period_sec,
                            a.center_freq_hz - a.drift_depth_hz,
                            a.center_freq_hz + a.drift_depth_hz>>, "freq_lfo", 0),
       Node("ButBP", <<1, 2>>, <<20>>, "filter", 0),
       Node("Sine", <<>>, <<1000000 \div a.amp_lfo_period_sec,
                            1000 - a.amp_lfo_depth,
                            1000 + a.amp_lfo_depth>>, "amp_lfo", 0),
       db_to_amp(<<3>>, a.out_db + BASE_TRIM_DB, "layer_amp"),
       Node("Mul", <<5, 4>>, <<>>, "out_sig", 0) >>

EigenBase(a, sb) ==
    << Node("PinkNoise", <<>>, <<>>, "noise", sb + 1),
       Node("Sine", <<>>, <<1000000 \div a.drift_period_sec,
                            a.center_freq_hz - a.drift_depth_hz,
                            a.center_freq_hz + a.drift_depth_hz>>, "freq_lfo", 0),
       Node("ButBP", <<1, 2>>, <<20>>, "filter", 0),
       Node("Sine", <<>>, <<1000000 \div a.amp_lfo_period_sec,
                            1000 - a.amp_lfo_depth,
                            1000 + a.amp_lfo_depth>>, "amp_lfo", 0),
       Node("Mul", <<3, 4>>, <<>>, "premix", 0),
       db_to_amp(<<5>>, a.out_db + BASE_TRIM_DB, "layer_amp") >>

\* range(num_tones) is empty for num_tones <= 0
NumBranches(n) == IF n > 0 THEN n ELSE 0

\* Tone branches whose oscillators all read the frequency modulator created
\* for the first branch.
MicroToneNode_shared_freq_lfo(a, sb, t, k) ==
    LET b == 2 + 7 * t
        s == sb + 1 + 4 * t
    IN  CASE k = 0 -> Node("Randi", <<>>, <<10, 100, 50>>, "freq_rate_lfo", s + 1)
          [] k = 1 -> Node("Randi", <<b + 1>>, <<a.freq_min_hz, a.freq_max_hz>>,
                           "freq_lfo", s + 2)
          [] k = 2 -> Node("Randi", <<>>, <<a.amp_lfo_freq_min, a.amp_lfo_freq_max, 100>>,
                           "amp_freq", s + 3)
          [] k = 3 -> Node("Randi", <<b + 3>>, <<0, 1000>>, "amp_lfo", s + 4)
          [] k = 4 -> Node("Pow", <<b + 4>>, <<2>>, "shaped_amp", 0)
          [] k = 5 -> db_to_amp(<<b + 5>>, a.tone_db, "tone_base_amp")
          [] k = 6 -> Node("Sine", <<4, b + 6>>, <<>>, "tone", 0)

\* The k-th object (k in 0..6) of tone branch t (t >= 0); b is the index of the
\* object created just before the branch.
MicroToneNode(a, sb, t, k) ==
    LET b == 2 + 7 * t
        s == sb + 1 + 4 * t
    IN  CASE k = 0 -> Node("Randi", <<>>, <<10, 100, 50>>, "freq_rate_lfo", s + 1)
          [] k = 1 -> Node("Randi", <<b + 1>>, <<a.freq_min_hz, a.freq_max_hz>>,
                           "freq_lfo", s + 2)
          [] k = 2 -> Node("Randi", <<>>, <<a.amp_lfo_freq_min, a.amp_lfo_freq_max, 100>>,
                           "amp_freq", s + 3)
          [] k = 3 -> Node("Randi", <<b + 3>>, <<0, 1000>>, "amp_lfo", s + 4)
          [] k = 4 -> Node("Pow", <<b + 4>>, <<2>>, "shaped_amp", 0)
          [] k = 5 -> db_to_amp(<<b + 5>>, a.tone_db, "tone_base_amp")
          [] k = 6 -> Node("Sine", <<b + 2, b + 6>>, <<>>, "tone", 0)

\* An EigenMicro whose master gain scales the tone sum alone, the noise bed
\* being added after it.
EigenMicro_gain_before_noise(a, sb) ==
    LET n == NumBranches(a.num_tones)
        last == 2 + 7 * n
    IN  [i \in 1..(last + 3) |->
            CASE i = 1 -> Node("PinkNoise", <<>>, <<>>, "noise_src", sb + 1)
              [] i = 2 -> db_to_amp(<<1>>, a.noise_db, "noise")
              [] i = last + 1 ->
                    Node("Sum", [t \in 1..n |-> 2 + 7 * t], <<>>, "tones_sum", 0)
              [] i = last + 2 ->
                    db_to_amp(<<last + 1>>, a.out_db + MICRO_TRIM_DB, "layer_amp")
              [] i = last + 3 -> Node("Add", <<2, last + 2>>, <<>>, "premix", 0)
              [] OTHER -> MicroToneNode(a, sb, (i - 3) \div 7, (i - 3) % 7)]

EigenMicro(a, sb) ==
    LET n == NumBranches(a.num_tones)
        last == 2 + 7 * n
    IN  [i \in 1..(last + 3) |->
            CASE i = 1 -> Node("PinkNoise", <<>>, <<>>, "noise_src", sb + 1)
              [] i = 2 -> db_to_amp(<<1>>, a.noise_db, "noise")
              [] i = last + 1 ->
                    Node("Sum", [t \in 1..n |-> 2 + 7 * t], <<>>, "tones_sum", 0)
              [] i = last + 2 -> Node("Add", <<2, last + 1>>, <<>>, "premix", 0)
              [] i = last + 3 ->
                    db_to_amp(<<last + 2>>, a.out_db + MICRO_TRIM_DB, "layer_amp")
              [] OTHER -> MicroToneNode(a, sb, (i - 3) \div 7, (i - 3) % 7)]

\* An EigenPulse that shapes its pulses with the square of the amplitude
\* modulator.
EigenPulse_squared_amp(a, sb) ==
    << Node("PinkNoise", <<>>, <<>>, "noise_src", sb + 1),
       db_to_amp(<<1>>, a.noise_db, "noise_bed"),
       Node("PinkNoise", <<>>, <<>>, "pulse_noise", sb + 2),
       Node("Randi", <<>>, <<a.freq_min_hz, a.freq_max_hz, 50>>, "freq_lfo", sb + 3),
       Node("ButBP", <<3, 4>>, <<12>>, "band", 0),
       Node("Randi", <<>>, <<a.pulse_rate_min, a.pulse_rate_max, 500>>,
            "pulse_rate", sb + 4),
       Node("Randi", <<6>>, <<0, 1000>>, "amp_lfo", sb + 5),
       Node("Pow", <<7>>, <<2>>, "shaped_amp", 0),
       Node("Mul", <<5, 8>>, <<>>, "band_shaped", 0),
       db_to_amp(<<9>>, a.pulse_db, "pulse_amp"),
       Node("Add", <<2, 10>>, <<>>, "premix", 0),
       db_to_amp(<<11>>, a.out_db + PULSE_TRIM_DB, "layer_amp") >>

EigenPulse(a, sb) ==
    << Node("PinkNoise", <<>>, <<>>, "noise_src", sb + 1),
       db_to_amp(<<1>>, a.noise_db, "noise_bed"),
       Node("PinkNoise", <<>>, <<>>, "pulse_noise", sb + 2),
       Node("Randi", <<>>, <<a.freq_min_hz, a.freq_max_hz, 50>>, "freq_lfo", sb + 3),
       Node("ButBP", <<3, 4>>, <<12>>, "band", 0),
       Node("Randi", <<>>, <<a.pulse_rate_min, a.pulse_rate_max, 500>>,
            "pulse_rate", sb + 4),
       Node("Randi", <<6>>, <<0, 1000>>, "amp_lfo", sb + 5),
       Node("Pow", <<7>>, <<3>>, "shaped_amp", 0),
       Node("Mul", <<5, 8>>, <<>>, "band_shaped", 0),
       db_to_amp(<<9>>, a.pulse_db, "pulse_amp"),
       Node("Add", <<2, 10>>, <<>>, "premix", 0),
       db_to_amp(<<11>>, a.out_db + PULSE_TRIM_DB, "layer_amp") >>

\* 1.0 / drift_period_sec and 1.0 / amp_lfo_period_sec raise ZeroDivisionError
CtorRaises(L, a) ==
    L = "BASE" /\ (a.drift_period_sec = 0 \/ a.amp_lfo_period_sec = 0)

Construct(L, a, sb) ==
    CASE L = "BASE" -> EigenBase(a, sb)
      [] L = "MICRO" -> EigenMicro(a, sb)
      [] L = "PULSE" -> EigenPulse(a, sb)

----------------------------------------------------------------------------
(* The pyo server and the audio callback *)

NoServer ==
    [state |-> "none", sr |-> 0, nchnls |-> 0, buffersize |-> 0, duplex |-> 0,
     verbosity |-> 0, globalSeed |-> 0]

\* Server(sr=SAMPLE_RATE, nchnls=1, buffersize=1024, duplex=0), setOutputDevice,
\* setVerbosity(0), boot.  No call of setGlobalSeed: the global seed stays 0.
_make_server ==
    [state |-> "booted", sr |-> SAMPLE_RATE, nchnls |-> 1, buffersize |-> BlockSize,
     duplex |-> 0, verbosity |-> 0, globalSeed |-> 0]

\* The server of a render session: the same, the verbosity left at its default.
RenderServer ==
    [state |-> "booted", sr |-> SAMPLE_RATE, nchnls |-> 1, buffersize |-> BlockSize,
     duplex |-> 0, verbosity |-> 7, globalSeed |-> 0]

\* The server of the lab: two channels.
LabServer ==
    [state |-> "booted", sr |-> SAMPLE_RATE, nchnls |-> 2, buffersize |-> BlockSize,
     duplex |-> 0, verbosity |-> 0, globalSeed |-> 0]

\* With a global seed the library derives every generator's seed from it; with
\* the global seed 0 it derives them from the wall clock.
SeedBase(s, c) == IF s.globalSeed > 0 THEN s.globalSeed ELSE c

NoRec == [configured |-> FALSE, dur |-> 0, active |-> FALSE, captured |-> 0, digest |-> 0]

NoAudio ==
    [out |-> FALSE, delivered |-> 0, filling |-> 0, slept |-> 0, lag |-> 0,
     window |-> 0, failed |-> FALSE]

NoArgs == [out_db |-> 0]

NoPrev == [variant |-> "none", captured |-> 0, digest |-> 0]

RECURSIVE SeedSum(_, _)
SeedSum(g, i) == IF i = 0 THEN 0 ELSE g[i].seed + SeedSum(g, i - 1)

\* A digest of the n-th block (n >= 0) out_sig produces: the graph has no input
\* but its random sources, so the block is a function of their seeds and of n.
OutBlock(g, n) == (SeedSum(g, Len(g)) * (n + 1) + n) % 9973

\* Whole blocks the audio thread produces during time.sleep(DURATION_SEC)
MinBlocks == totalSamples \div BlockSize

----------------------------------------------------------------------------
(* Catalog lookup *)

AllNames ==
    DOMAIN BASE_VARIANTS \cup DOMAIN MICRO_VARIANTS \cup DOMAIN PULSE_VARIANTS

\* Names a caller may pass: every catalog name and one name of no catalog
Names == AllNames \cup {"NOPE"}

\* A lookup whose second and third test return each other's layer.
get_layer_for_variant_swapped(v) ==
    IF v \in DOMAIN VARIANTS("BASE") THEN "BASE"
    ELSE IF v \in DOMAIN VARIANTS("MICRO") THEN "PULSE"
    ELSE IF v \in DOMAIN VARIANTS("PULSE") THEN "MICRO"
    ELSE "ValueError"

get_layer_for_variant(v) ==
    IF v \in DOMAIN VARIANTS("BASE") THEN "BASE"
    ELSE IF v \in DOMAIN VARIANTS("MICRO") THEN "MICRO"
    ELSE IF v \in DOMAIN VARIANTS("PULSE") THEN "PULSE"
    ELSE "ValueError"

\* A function without the membership test: every name passes.
variant_unchecked(L, v) == TRUE

\* "if variant_name not in X_VARIANTS: raise ValueError"
variant_known(L, v) == v \in DOMAIN VARIANTS(L)

\* A lookup that stores the level into the record it reads.
read_variant_stores_out_db(c, L, v) == [c EXCEPT ![L][v] = @ @@ [out_db |-> OUT_DB(L)]]

\* variant = X_VARIANTS[variant_name] and the reads variant["..."] of the
\* constructor call: the dicts after them are the dicts before them
read_variant(c, L, v) == c

\* Preview arguments that leave out_db to a stale default.
PreviewArgs_stale_out_db(L, v) == VARIANTS(L)[v] @@ [out_db |-> -18]

\* The keyword arguments preview_*_variant passes to the constructor
PreviewArgs(L, v) == VARIANTS(L)[v] @@ [out_db |-> OUT_DB(L)]

\* The keyword arguments render_*_variant passes to the constructor
RenderArgs(L, v) == VARIANTS(L)[v] @@ [out_db |-> OUT_DB(L)]

SessionArgs(m, L, v) == IF m = "preview" THEN PreviewArgs(L, v) ELSE RenderArgs(L, v)

SessionServer(m) == IF m = "preview" THEN _make_server ELSE RenderServer

\* render_all_layers: all BASE, then all MICRO, then all PULSE, in catalog order
Tagged(L) == [i \in 1..Len(KEYS(L)) |-> <<L, KEYS(L)[i]>>]

\* A batch that renders the MICRO variants before the BASE variants.
render_all_layers_micro_first == Tagged("MICRO") \o Tagged("BASE") \o Tagged("PULSE")

render_all_layers == Tagged("BASE") \o Tagged("MICRO") \o Tagged("PULSE")

\* Arguments a caller may hand to a constructor directly
CtorArgs(L) ==
    CASE L = "BASE" ->
            { BaseParams(c, 1200, dp, 450, ap) @@ [out_db |-> BASE_OUT_DB] :
                c \in {2800, -100}, dp \in {45, 0, -45}, ap \in {30, 0} }
      [] L = "MICRO" ->
            { MicroParams(f[1], f[2], n, 300, 1200, -1, -15) @@ [out_db |-> MICRO_OUT_DB] :
                f \in {<<6500, 8000>>, <<8000, 6500>>, <<-100, 8000>>}, n \in {-1, 0, 2} }
      [] L = "PULSE" ->
            { PulseParams(f[1], f[2], 1500, 4000, -60, -10) @@ [out_db |-> PULSE_OUT_DB] :
                f \in {<<1500, 4500>>, <<4500, 1500>>, <<0, 4500>>} }

----------------------------------------------------------------------------
(* The random interpolated modulator: Randi(min, max, freq) as the layers    *)
(* use it.  Values are on an integer grid; the phase "time" of a segment     *)
(* runs from 0 to 1 in TimeUnits steps, an output sample is kept multiplied  *)
(* by TimeUnits, and inc = freq / sr is the phase a sample advances (freq    *)
(* may itself be the output of another Randi, so inc varies by the sample).  *)

\* Phase steps that make one segment (time = 1.0)
TimeUnits == 8
\* Largest phase increment of one sample, in phase steps (freq below sr)
MaxInc == 3
\* Half the width max - min of a modulator's range, in grid steps
HalfRange == 2

\* The ranges the constructors pass: from 0 (amp_lfo, min=0.0) or from a
\* positive minimum (freq_lfo, min=freq_min_hz), max above min
RandiRanges == { <<0, 2 * HalfRange>>, <<3, 3 + 2 * HalfRange>> }

NoRandi ==
    [min |-> 0, max |-> 0, time |-> 0, oldValue |-> 0, value |-> 0, diff |-> 0,
     out |-> 0, prevOut |-> 0, inc |-> 0, n |-> 0]

\* Randi(min=..., max=..., freq=...): the value starts in the middle of the
\* range and the first sample starts the first segment
Randi(mi, ma) ==
    [min |-> mi, max |-> ma, time |-> TimeUnits, oldValue |-> (mi + ma) \div 2,
     value |-> (mi + ma) \div 2, diff |-> 0, out |-> 0, prevOut |-> 0, inc |-> 0,
     n |-> 0]

\* A modulator that holds each drawn value (Randh): the output steps to it.
Randh_out(old, diff, t) == TimeUnits * (old + diff)

\* data[i] = oldValue + diff * time
Randi_out(old, diff, t) == TimeUnits * old + diff * t

\* One sample of the generator with phase increment inc; when the phase
\* passes 1.0 the segment is complete: the old target becomes the start of
\* the next segment and target is the newly drawn value.
Randi_generate(r, inc, target) ==
    LET t == r.time + inc
        sampled == [r EXCEPT !.prevOut = r.out, !.inc = inc,
                             !.n = IF r.n < 2 THEN r.n + 1 ELSE r.n]
    IN  IF t >= TimeUnits
        THEN [sampled EXCEPT !.time = t - TimeUnits,
                             !.oldValue = r.value,
                             !.value = target,
                             !.diff = target - r.value,
                             !.out = Randi_out(r.value, target - r.value, t - TimeUnits)]
        ELSE [sampled EXCEPT !.time = t,
                             !.out = Randi_out(r.oldValue, r.diff, t)]

----------------------------------------------------------------------------
(* Object identities.  Every constructor call yields an object of its own;   *)
(* the objects of a session are unreachable once its function has returned.  *)

\* No object yet: identities are numbered from 1, 0 stands for "no object"
NoHeap == [next |-> 1, server |-> 0, voice |-> 0, voiceServer |-> 0, retired |-> {}]

\* The heap of the lab: its server exists before the constructor is called
LabHeap == [next |-> 2, server |-> 1, voice |-> 0, voiceServer |-> 0, retired |-> {}]

\* A module that keeps the server of the first session for the later ones.
cached_object(h) == IF h.retired = {} THEN h.next ELSE CHOOSE o \in h.retired : TRUE

\* Server(...) and EigenX(...): a constructor call returns a new object
new_object(h) == h.next

\* s = Server(...)
heap_server(h) == [h EXCEPT !.server = new_object(h), !.next = Max(@, new_object(h) + 1)]

\* voice = EigenX(server=s, ...): the layer object and the components it creates
heap_voice(h) ==
    [h EXCEPT !.voice = new_object(h), !.voiceServer = h.server,
              !.next = Max(@, new_object(h) + 1)]

\* The function returned: its locals s and voice are gone
heap_return(h) ==
    [h EXCEPT !.server = 0, !.voice = 0, !.voiceServer = 0,
              !.retired = @ \cup ({h.server, h.voice} \ {0})]

----------------------------------------------------------------------------
(* Initial states: one invocation of the program or of one of its functions *)

FreshSession ==
    /\ catalog = VARIANT_TABLES
    /\ heap = NoHeap
    /\ rim = NoRandi
    /\ args = NoArgs
    /\ srv = NoServer
    /\ graph = <<>>
    /\ rec = NoRec
    /\ audio = NoAudio
    /\ err = "none"
    /\ pending = "none"
    /\ report = <<>>
    /\ intrAt = <<>>
    /\ stopBy = "none"
    /\ queue = <<>>
    /\ clock = 1
    /\ prev = NoPrev

\* python eigenrausch_pyo_main.py <mode> -v <variant>
InitMain ==
    /\ mode \in {"list", "preview", "render", "render_all"}
    /\ variant \in Names
    /\ layer = "none"
    /\ pc = "main"
    /\ FreshSession

\* preview_*_variant(name) or render_*_variant(name) called directly
InitCall ==
    /\ mode \in {"preview", "render"}
    /\ variant \in Names
    /\ layer \in Layers
    /\ pc = "call"
    /\ FreshSession

\* EigenBase(...), EigenMicro(...) or EigenPulse(...) called on a booted server
InitCtor ==
    /\ catalog = VARIANT_TABLES
    /\ heap = LabHeap
    /\ rim = NoRandi
    /\ mode = "construct"
    /\ variant = "none"
    /\ layer \in Layers
    /\ pc = "ctor"
    /\ args \in CtorArgs(layer)
    /\ srv = LabServer
    /\ graph = <<>>
    /\ rec = NoRec
    /\ audio = NoAudio
    /\ err = "none"
    /\ pending = "none"
    /\ report = <<>>
    /\ intrAt = <<>>
    /\ stopBy = "none"
    /\ queue = <<>>
    /\ clock = 1
    /\ prev = NoPrev

Init == InitMain \/ InitCall \/ InitCtor

----------------------------------------------------------------------------
(* main *)

Raise(e) ==
    /\ pc' = "raised"
    /\ err' = e

MainList ==
    /\ pc = "main"
    /\ mode = "list"
    /\ report' = <<"list">>
    /\ pc' = "returned"
    /\ UNCHANGED <<catalog, rim, heap, mode, variant, layer, args, srv, graph, rec,
                   audio, err, pending,
                   intrAt, stopBy, queue, clock, prev>>

MainRenderAll ==
    /\ pc = "main"
    /\ mode = "render_all"
    /\ queue' = render_all_layers
    /\ pc' = "all"
    /\ UNCHANGED <<catalog, rim, heap, mode, variant, layer, args, srv, graph, rec,
                   audio, err, pending,
                   report, intrAt, stopBy, clock, prev>>

\* A main that looks the variant up before it looks at the mode.
reaches_lookup_always(m) == TRUE

\* The modes in which main reaches layer = get_layer_for_variant(variant):
\* "list" and "render_all" return before it
reaches_lookup(m) == m \in {"preview", "render"}

MainSession ==
    /\ pc = "main"
    /\ reaches_lookup(mode)
    /\ IF get_layer_for_variant(variant) = "ValueError"
       THEN /\ Raise("ValueError")
            /\ UNCHANGED layer
       ELSE /\ layer' = get_layer_for_variant(variant)
            /\ pc' = "call"
            /\ UNCHANGED err
    /\ UNCHANGED <<catalog, rim, heap, mode, variant, args, srv, graph, rec, audio, pending,
                   report, intrAt, stopBy, queue, clock, prev>>

\* One turn of the loops of render_all_*_variants: the next render_*_variant call,
\* or the return after the last one.
RenderAllNext ==
    /\ pc = "all"
    /\ IF queue = <<>>
       THEN /\ pc' = "returned"
            /\ UNCHANGED <<variant, layer, args, srv, graph, rec, audio, report,
                           intrAt, stopBy, queue, clock, heap>>
       ELSE /\ layer' = Head(queue)[1]
            /\ variant' = Head(queue)[2]
            /\ queue' = Tail(queue)
            /\ pc' = "call"
            /\ args' = NoArgs
            /\ srv' = NoServer
            /\ graph' = <<>>
            /\ rec' = NoRec
            /\ audio' = NoAudio
            /\ report' = <<>>
            /\ intrAt' = <<>>
            /\ stopBy' = "none"
            /\ clock' \in 1..MaxClock
            /\ heap' = heap_return(heap)
    /\ UNCHANGED <<catalog, rim, mode, err, pending, prev>>

----------------------------------------------------------------------------
(* preview_*_variant and render_*_variant, statement by statement *)

Recording == mode \in {"render", "render_all"}

\* The membership test and the catalog lookup at the head of the function
Call ==
    /\ pc = "call"
    /\ IF ~variant_known(layer, variant)
       THEN Raise("ValueError")
       ELSE IF variant \notin DOMAIN VARIANTS(layer)
       THEN Raise("KeyError")
       ELSE /\ pc' = "boot"
            /\ UNCHANGED err
    /\ UNCHANGED <<catalog, rim, heap, mode, variant, layer, args, srv, graph, rec, audio, pending,
                   report, intrAt, stopBy, queue, clock, prev>>

\* A session that starts the server before it builds the graph.
AfterBoot_start_first == "start"

\* The statement that follows the boot of the server: the constructor call
AfterBoot == "construct"

\* s = _make_server(device_index), or Server(...); setOutputDevice; boot
Boot ==
    /\ pc = "boot"
    /\ srv' = SessionServer(mode)
    /\ heap' = heap_server(heap)
    /\ pc' = AfterBoot
    /\ UNCHANGED <<catalog, rim, mode, variant, layer, args, graph, rec, audio, err, pending,
                   report, intrAt, stopBy, queue, clock, prev>>

\* voice = EigenX(server=s, ..., out_db=X_OUT_DB).out()
AfterConstruct == IF Recording THEN "recopt" ELSE "start"

ConstructGraph ==
    /\ pc = "construct"
    /\ LET a == SessionArgs(mode, layer, variant)
       IN  IF CtorRaises(layer, a)
           THEN /\ Raise("ZeroDivisionError")
                /\ UNCHANGED <<args, graph, audio, heap>>
           ELSE /\ args' = a
                /\ graph' = Construct(layer, a, SeedBase(srv, clock))
                /\ heap' = heap_voice(heap)
                /\ audio' = [audio EXCEPT !.out = TRUE]
                /\ pc' = AfterConstruct
                /\ UNCHANGED err
    /\ catalog' = read_variant(catalog, layer, variant)
    /\ UNCHANGED <<rim, mode, variant, layer, srv, rec, pending, report, intrAt, stopBy,
                   queue, clock, prev>>

\* s.recordOptions(dur=DURATION_SEC, filename=..., fileformat=0, sampletype=1)
RecordOptions ==
    /\ pc = "recopt"
    /\ rec' = [rec EXCEPT !.configured = TRUE, !.dur = DURATION_SEC]
    /\ pc' = "start"
    /\ UNCHANGED <<catalog, rim, heap, mode, variant, layer, args, srv, graph, audio, err, pending,
                   report, intrAt, stopBy, queue, clock, prev>>

\* A session that builds its voice again once the server runs.
AfterStart_constructs_again == "construct"

\* The statement that follows s.start(): s.recstart() in a render, the wait of
\* the try block in a preview
AfterStart == IF Recording THEN "recstart" ELSE "wait"

\* s.start()
Start ==
    /\ pc = "start"
    /\ srv' = [srv EXCEPT !.state = "started"]
    /\ pc' = AfterStart
    /\ UNCHANGED <<catalog, rim, heap, mode, variant, layer, args, graph, rec, audio, err, pending,
                   report, intrAt, stopBy, queue, clock, prev>>

\* s.recstart(), the "Recording started" line, and the entry of the try block
Recstart ==
    /\ pc = "recstart"
    /\ rec' = [rec EXCEPT !.active = TRUE]
    /\ report' = Append(report, "Recording started")
    /\ pc' = "wait"
    /\ UNCHANGED <<catalog, rim, heap, mode, variant, layer, args, srv, graph, audio, err, pending,
                   intrAt, stopBy, queue, clock, prev>>

\* A finally block that begins with s.stop() in a render too.
FirstFinally_stop_first == "fin_stop"

\* The first statement of the finally block: s.recstop() in a render, s.stop()
\* in a preview
FirstFinally == IF Recording THEN "fin_recstop" ELSE "fin_stop"

\* input() returns: the user pressed Enter
PreviewEnter ==
    /\ pc = "wait"
    /\ mode = "preview"
    /\ stopBy' = "enter"
    /\ pc' = FirstFinally
    /\ UNCHANGED <<catalog, rim, heap, mode, variant, layer, args, srv, graph, rec,
                   audio, err, pending,
                   report, intrAt, queue, clock, prev>>

\* input() raises EOFError: standard input is closed
PreviewEOF ==
    /\ pc = "wait"
    /\ mode = "preview"
    /\ stopBy' = "eof"
    /\ pending' = "EOFError"
    /\ pc' = FirstFinally
    /\ UNCHANGED <<catalog, rim, heap, mode, variant, layer, args, srv, graph, rec, audio, err,
                   report, intrAt, queue, clock, prev>>

\* time.sleep(DURATION_SEC) returns: never before the duration has passed
SleepReturn ==
    /\ pc = "wait"
    /\ Recording
    /\ audio.slept >= MinBlocks
    /\ stopBy' = "timeout"
    /\ pc' = FirstFinally
    /\ UNCHANGED <<catalog, rim, heap, mode, variant, layer, args, srv, graph, rec,
                   audio, err, pending,
                   report, intrAt, queue, clock, prev>>


\* Positions of the session at which Ctrl+C can reach the main thread
InterruptPcs ==
    {"boot", "construct", "recopt", "start", "recstart", "wait", "except",
     "fin_recstop", "fin_stop", "fin_shutdown", "done"}

\* A wait that stands outside every try block.
InTryBody_none(p) == FALSE

\* The statements inside "try:": the input() or time.sleep(DURATION_SEC) wait
InTryBody(p) == p = "wait"

\* KeyboardInterrupt raised in the main thread at its current position: inside
\* the try body it is caught, inside the handler the finally block still runs
\* and the exception leaves afterwards, anywhere else it leaves at once.
Interrupt ==
    /\ pc \in InterruptPcs
    /\ intrAt' = Append(intrAt, pc)
    /\ IF InTryBody(pc)
       THEN /\ pc' = "except"
            /\ stopBy' = "interrupt"
            /\ UNCHANGED <<err, pending>>
       ELSE IF pc = "except"
       THEN /\ pc' = FirstFinally
            /\ pending' = "KeyboardInterrupt"
            /\ UNCHANGED <<err, stopBy>>
       ELSE /\ Raise("KeyboardInterrupt")
            /\ UNCHANGED <<pending, stopBy>>
    /\ UNCHANGED <<catalog, rim, heap, mode, variant, layer, args, srv, graph, rec, audio, report,
                   queue, clock, prev>>

\* except KeyboardInterrupt: print(...)
Except ==
    /\ pc = "except"
    /\ report' = Append(report, IF Recording THEN "Interrupted by user, stopping early"
                                ELSE "Stopping on Ctrl+C")
    /\ pc' = FirstFinally
    /\ UNCHANGED <<catalog, rim, heap, mode, variant, layer, args, srv, graph, rec,
                   audio, err, pending,
                   intrAt, stopBy, queue, clock, prev>>

\* A recstop that leaves the recording running until the server stops.
recstop_keeps_recording(r) == r

\* s.recstop()
recstop(r) == [r EXCEPT !.active = FALSE]

FinRecstop ==
    /\ pc = "fin_recstop"
    /\ rec' = recstop(rec)
    /\ pc' = "fin_stop"
    /\ UNCHANGED <<catalog, rim, heap, mode, variant, layer, args, srv, graph, audio, err, pending,
                   report, intrAt, stopBy, queue, clock, prev>>

\* A stop that returns while the callback is still filling a block.
stop_may_return_abandoning(a) == TRUE

\* s.stop() closes the stream: it returns when no callback is running
stop_may_return(a) == a.filling = 0

\* s.stop()
FinStop ==
    /\ pc = "fin_stop"
    /\ stop_may_return(audio)
    /\ srv' = [srv EXCEPT !.state = "stopped"]
    /\ pc' = "fin_shutdown"
    /\ UNCHANGED <<catalog, rim, heap, mode, variant, layer, args, graph, rec, audio, err, pending,
                   report, intrAt, stopBy, queue, clock, prev>>

\* s.shutdown(), then the end of the finally block: a pending exception leaves
FinShutdown ==
    /\ pc = "fin_shutdown"
    /\ srv' = [srv EXCEPT !.state = "shutdown"]
    /\ IF pending # "none"
       THEN Raise(pending)
       ELSE /\ pc' = "done"
            /\ UNCHANGED err
    /\ UNCHANGED <<catalog, rim, heap, mode, variant, layer, args, graph, rec, audio, pending,
                   report, intrAt, stopBy, queue, clock, prev>>

\* print(f"[RENDER X] Done: {filename}") in a render; then the function returns
Finish ==
    /\ pc = "done"
    /\ report' = IF Recording THEN Append(report, "Done") ELSE report
    /\ pc' = IF mode = "render_all" THEN "all" ELSE "returned"
    /\ UNCHANGED <<catalog, rim, heap, mode, variant, layer, args, srv, graph, rec,
                   audio, err, pending,
                   intrAt, stopBy, queue, clock, prev>>

\* The constructor called directly
DirectConstruct ==
    /\ pc = "ctor"
    /\ IF CtorRaises(layer, args)
       THEN /\ Raise("ZeroDivisionError")
            /\ UNCHANGED <<graph, audio, heap>>
       ELSE /\ graph' = Construct(layer, args, SeedBase(srv, clock))
            /\ heap' = heap_voice(heap)
            /\ audio' = [audio EXCEPT !.out = TRUE]
            /\ pc' = "returned"
            /\ UNCHANGED err
    /\ UNCHANGED <<catalog, rim, mode, variant, layer, args, srv, rec, pending, report, intrAt,
                   stopBy, queue, clock, prev>>

----------------------------------------------------------------------------
(* The audio thread: one callback produces one block.  While the main thread *)
(* sleeps, the device asks for MinBlocks blocks at least; every other block  *)
(* is a block period by which the main thread is late.                       *)

InRecordingWindow == Recording /\ pc \in {"wait", "except", "fin_recstop"}

\* The device asks for a block: the callback is entered and starts to fill the
\* block; HalfBlock stands for every position inside it.  The callback of a
\* live preview is followed in its two steps, entry and return, so that the
\* main thread can act while a block is in progress; the callback of a
\* recording session is followed as the one step AudioBlock.
HalfBlock == BlockSize \div 2

CallbackEnter ==
    /\ ~Recording
    /\ srv.state = "started"
    /\ ~audio.failed
    /\ pc \notin {"raised", "returned"}
    /\ audio.filling = 0
    /\ audio.delivered < MaxPreviewBlocks
    /\ audio' = [audio EXCEPT !.filling = HalfBlock]
    /\ UNCHANGED <<catalog, rim, heap, mode, variant, layer, args, pc, srv, graph, rec, err,
                   pending, report, intrAt, stopBy, queue, clock, prev>>

\* The callback returns: the block is complete, it goes to the device and,
\* while a recording is active, to the file.
AudioBlock ==
    /\ pc \notin {"raised", "returned"}
    /\ LET due == Recording /\ pc = "wait" /\ audio.slept < MinBlocks
       IN  /\ IF Recording
              THEN srv.state = "started" /\ (due \/ audio.lag < MaxDelay)
              ELSE audio.filling > 0
           /\ audio' = [audio EXCEPT
                          !.delivered = @ + 1,
                          !.filling = 0,
                          !.slept = IF due THEN @ + 1 ELSE @,
                          !.lag = IF due THEN @ ELSE @ + 1,
                          !.window = IF InRecordingWindow THEN @ + 1 ELSE @]
    /\ rec' = IF rec.active
              THEN [rec EXCEPT !.captured = @ + srv.buffersize,
                               !.digest = (@ * 31 + OutBlock(graph, audio.delivered)) % 9973]
              ELSE rec
    /\ UNCHANGED <<catalog, rim, heap, mode, variant, layer, args, pc, srv, graph, err, pending,
                   report, intrAt, stopBy, queue, clock, prev>>

\* The output device of a live preview fails while the main thread waits in
\* input(): it could not be started, was disconnected, or underran for good.
\* The callback is no longer called.  Nothing in the program observes the
\* device: the main thread stays where it is.
DeviceFail ==
    /\ mode = "preview"
    /\ pc = "wait"
    /\ srv.state = "started"
    /\ ~audio.failed
    /\ audio.filling = 0
    /\ audio' = [audio EXCEPT !.failed = TRUE]
    /\ UNCHANGED <<catalog, rim, heap, mode, variant, layer, args, pc, srv, graph, rec, err,
                   pending, report, intrAt, stopBy, queue, clock, prev>>

----------------------------------------------------------------------------
(* A second run of the same render, for comparing two runs *)

Rerun ==
    /\ pc = "returned"
    /\ mode = "render"
    /\ prev = NoPrev
    /\ prev' = [variant |-> variant, captured |-> rec.captured, digest |-> rec.digest]
    /\ pc' = "call"
    /\ clock' \in 1..MaxClock
    /\ args' = NoArgs
    /\ srv' = NoServer
    /\ graph' = <<>>
    /\ rec' = NoRec
    /\ audio' = NoAudio
    /\ report' = <<>>
    /\ intrAt' = <<>>
    /\ stopBy' = "none"
    /\ heap' = heap_return(heap)
    /\ UNCHANGED <<catalog, rim, mode, variant, layer, err, pending, queue>>

----------------------------------------------------------------------------
(* The audio callback computing one more sample of a modulator *)

\* A sample inside a segment
RandiRamp ==
    /\ pc = "randi"
    /\ \E inc \in 1..MaxInc :
          /\ rim.time + inc < TimeUnits
          /\ rim' = Randi_generate(rim, inc, rim.value)
    /\ UNCHANGED <<catalog, heap, mode, variant, layer, args, pc, srv, graph, rec, audio,
                   err, pending, report, intrAt, stopBy, queue, clock, prev>>

\* A sample that completes a segment and draws the next target
RandiNewSegment ==
    /\ pc = "randi"
    /\ \E inc \in 1..MaxInc, target \in rim.min..rim.max :
          /\ rim.time + inc >= TimeUnits
          /\ rim' = Randi_generate(rim, inc, target)
    /\ UNCHANGED <<catalog, heap, mode, variant, layer, args, pc, srv, graph, rec, audio,
                   err, pending, report, intrAt, stopBy, queue, clock, prev>>

----------------------------------------------------------------------------

SessionStep ==
    \/ Call
    \/ Boot
    \/ ConstructGraph
    \/ RecordOptions
    \/ Start
    \/ Recstart
    \/ SleepReturn
    \/ FinRecstop
    \/ FinStop
    \/ FinShutdown
    \/ Finish
    \/ AudioBlock

Next ==
    \/ MainList
    \/ MainRenderAll
    \/ MainSession
    \/ RenderAllNext
    \/ SessionStep
    \/ PreviewEnter
    \/ PreviewEOF
    \/ Interrupt
    \/ Except
    \/ DirectConstruct
    \/ DeviceFail
    \/ CallbackEnter

Spec == Init /\ [][Next]_vars

\* Two uninterrupted renders of one variant, one after the other
InitPair ==
    /\ InitCall
    /\ mode = "render"
    /\ variant_known(layer, variant)

NextPair == SessionStep \/ Rerun

SpecPair == InitPair /\ [][NextPair]_vars

\* One modulator of a playing graph, from its construction on
InitRandi ==
    /\ catalog = VARIANT_TABLES
    /\ heap = LabHeap
    /\ \E rg \in RandiRanges : rim = Randi(rg[1], rg[2])
    /\ mode = "modulator"
    /\ variant = "none"
    /\ layer = "none"
    /\ pc = "randi"
    /\ args = NoArgs
    /\ srv = [LabServer EXCEPT !.state = "started"]
    /\ graph = <<>>
    /\ rec = NoRec
    /\ audio = NoAudio
    /\ err = "none"
    /\ pending = "none"
    /\ report = <<>>
    /\ intrAt = <<>>
    /\ stopBy = "none"
    /\ queue = <<>>
    /\ clock = 1
    /\ prev = NoPrev

NextRandi == RandiRamp \/ RandiNewSegment

SpecRandi == InitRandi /\ [][NextRandi]_vars

----------------------------------------------------------------------------
(* Session phases *)

SessionModes == {"preview", "render", "render_all"}

\* The call of preview_*_variant or render_*_variant is over
SessionOver == pc \in {"returned", "raised"} \/ (pc = "all" /\ srv.state # "none")

Phase ==
    CASE pc = "raised" -> "Failed"
      [] pc = "returned" -> "Stopped"
      [] pc = "all" -> IF srv.state = "none" THEN "Idle" ELSE "Stopped"
      [] pc \in {"main", "call", "boot"} -> "Idle"
      [] pc \in {"construct", "recopt", "start", "ctor"} -> "Constructing"
      [] OTHER -> "Running"

GraphBuilt == graph # <<>>

\* The constructor has returned and the server has not been started yet.  No
\* step changes a graph or its arguments after that (C14), so what holds of
\* the graph here holds of it for the rest of its session.
Constructed == GraphBuilt /\ (mode = "construct" \/ pc \in {"recopt", "start"})

Range(f) == {f[i] : i \in DOMAIN f}

----------------------------------------------------------------------------
(* C1 *)

\* A render that ran to completion: the sleep returned, no interrupt, cleanup done
RenderCompleted ==
    /\ Recording
    /\ stopBy = "timeout"
    /\ intrAt = <<>>
    /\ srv.state = "shutdown"

----------------------------------------------------------------------------
(* C2 *)

\* C2: in every preview or render session, a server that was booted is stopped
\* and shut down on every exit path; no execution ends with a booted server
\* that was never shut down.
C2_ServerReleasedOnEveryExit ==
    (mode \in SessionModes /\ pc \in {"returned", "raised"})
        => srv.state \in {"none", "shutdown"}

----------------------------------------------------------------------------
(* C3 *)

\* The request names a variant absent from the catalog it is looked up in
UnknownRequest ==
    /\ mode \in {"preview", "render"}
    /\ IF layer = "none" THEN variant \notin AllNames
                         ELSE variant \notin DOMAIN VARIANTS(layer)

\* C3: a preview or render request for a name absent from the catalog fails
\* with the unknown-variant error (ValueError) and, at every moment, no server
\* exists, no graph component exists and no recording is configured; through
\* main and in a direct call alike.
C3_UnknownVariantFailsFirst ==
    UnknownRequest =>
        /\ srv = NoServer
        /\ graph = <<>>
        /\ ~audio.out
        /\ rec = NoRec
        /\ pc \in {"main", "call", "raised"}
        /\ pc = "raised" => err = "ValueError"

\* A direct call of the MICRO function with a BASE name has failed.
C3_Witness ==
    /\ layer = "MICRO"
    /\ variant = "BASE_A"
    /\ pc = "raised"
    /\ err = "ValueError"

----------------------------------------------------------------------------
(* C4 *)

ValidArgs(L, a) ==
    CASE L = "BASE" ->
            /\ a.drift_period_sec > 0
            /\ a.amp_lfo_period_sec > 0
            /\ a.center_freq_hz > 0
      [] L = "MICRO" ->
            /\ a.freq_min_hz > 0
            /\ a.freq_min_hz <= a.freq_max_hz
            /\ a.num_tones >= 0
      [] L = "PULSE" ->
            /\ a.freq_min_hz > 0
            /\ a.freq_min_hz <= a.freq_max_hz

\* C4: a parameter outside its valid range (zero or negative period, negative
\* or zero frequency, freq_min above freq_max, negative tone count) is reported
\* as a construction error: no graph is ever built from such arguments.
C4_InvalidArgsRejected == GraphBuilt => ValidArgs(layer, args)

----------------------------------------------------------------------------
(* C5 *)

\* The numbers of master gain nodes met on the paths from a source to node i
RECURSIVE MasterGains(_, _)
MasterGains(g, i) ==
    LET own == IF g[i].role = "layer_amp" THEN 1 ELSE 0
    IN  IF g[i].in = <<>>
        THEN {own}
        ELSE UNION { {c + own : c \in MasterGains(g, g[i].in[k])} : k \in DOMAIN g[i].in }

BranchLevels(L, a) ==
    CASE L = "BASE" -> {}
      [] L = "MICRO" -> {a.noise_db, a.tone_db}
      [] L = "PULSE" -> {a.noise_db, a.pulse_db}

\* C5: in every constructed graph every path from a source to out_sig passes
\* the master gain exactly once; that gain is the last node, it converts the
\* one sum out_db + TRIM_DB, and every other gain node converts a branch level.
C5_SingleMasterGain ==
    Constructed =>
        LET n == Len(graph)
        IN  /\ MasterGains(graph, n) = {1}
            /\ graph[n].op = "Gain"
            /\ graph[n].par = <<args.out_db + TRIM_DB(layer)>>
            /\ Cardinality({i \in 1..n : graph[i].role = "layer_amp"}) = 1
            /\ \A i \in 1..(n - 1) :
                  graph[i].op = "Gain" => graph[i].par[1] \in BranchLevels(layer, args)

\* A MICRO graph with ten tone branches has been built in a session.
C5_Witness ==
    /\ GraphBuilt
    /\ layer = "MICRO"
    /\ mode = "render"
    /\ Len(graph) = 75

----------------------------------------------------------------------------
(* C6 *)

PhaseOrder ==
    { <<"Idle", "Constructing">>, <<"Constructing", "Running">>,
      <<"Running", "Stopped">>, <<"Idle", "Failed">>,
      <<"Constructing", "Failed">>, <<"Running", "Failed">> }

\* render_all calls the next render_*_variant: a new session begins
NextSessionBegins == pc = "all" /\ pc' = "call"

PhaseStep ==
    \/ NextSessionBegins
    \/ /\ Phase' = Phase \/ <<Phase, Phase'>> \in PhaseOrder
       /\ Phase' = "Running" => (graph' # <<>> /\ audio'.out)
       /\ Phase \in {"Stopped", "Failed"} => Phase' = Phase
       /\ graph # <<>> => graph' = graph
       /\ srv.state \in {"started", "stopped", "shutdown"} => srv'.state # "booted"
       /\ srv.state \in {"stopped", "shutdown"} => srv'.state # "started"

SessionPhaseStep == (mode \in SessionModes) => PhaseStep

\* C6: a session moves through Idle, Constructing, Running and then Stopped or
\* Failed, only forward: Running is entered from Constructing with the graph
\* built, Stopped and Failed are left by no step of the session, a built graph
\* is never rebuilt and a stopped server is never started again.
C6_PhasesInOrder == [][SessionPhaseStep]_vars

\* A preview that played blocks and was stopped with Enter has returned.
C6_Witness ==
    /\ mode = "preview"
    /\ pc = "returned"
    /\ stopBy = "enter"
    /\ audio.delivered > 0
    /\ srv.state = "shutdown"

----------------------------------------------------------------------------
(* C7 *)

\* The wait was ended by Enter, or by one Ctrl+C that arrived during the wait
StoppedByUser ==
    \/ stopBy = "enter" /\ intrAt = <<>>
    \/ intrAt = <<"wait">>

\* C7: when Enter or one Ctrl+C arrives during the wait of a session (input()
\* of a preview, time.sleep of a render), the session does not fail: no
\* exception is pending or leaves the function, and when the function is over
\* the server has been stopped and shut down.
C7_InterruptIsNormalStop ==
    (mode \in SessionModes /\ StoppedByUser)
        => /\ pc # "raised"
           /\ err = "none"
           /\ pending = "none"
           /\ SessionOver => srv.state = "shutdown"

\* A render interrupted once during its sleep has returned to its caller.
C7_Witness ==
    /\ mode = "render"
    /\ pc = "returned"
    /\ stopBy = "interrupt"
    /\ intrAt = <<"wait">>
    /\ srv.state = "shutdown"

----------------------------------------------------------------------------
(* C8 *)

\* C8: when an offline render ends before totalSamples were captured because
\* the user interrupted the wait, the report to the caller flags the file as
\* incomplete: the completion line "Done" of a full render is not printed.
C8_TruncatedRenderFlagged ==
    ( /\ Recording
      /\ stopBy = "interrupt"
      /\ rec.captured < totalSamples
      /\ pc \in {"returned", "all"} )
        => "Done" \notin Range(report)

----------------------------------------------------------------------------
(* C9 *)

OtherMode(m) == IF m = "preview" THEN "render" ELSE "preview"

SignalConfig(s) == <<s.sr, s.nchnls, s.buffersize, s.duplex>>

\* C9: the graph of a session is the graph the other mode's function builds
\* for the same variant (same constructor, same arguments), the server has the
\* signal configuration of the other mode's server (sample rate, one channel,
\* block size 1024), and recording is configured and started in render only.
C9_PreviewRenderSameGraph ==
    (mode \in SessionModes /\ GraphBuilt) =>
        /\ args = SessionArgs(OtherMode(mode), layer, variant)
        /\ Constructed =>
              graph = Construct(layer, SessionArgs(OtherMode(mode), layer, variant),
                                SeedBase(srv, clock))
        /\ SignalConfig(srv) = SignalConfig(SessionServer(OtherMode(mode)))
        /\ SignalConfig(srv) = <<SAMPLE_RATE, 1, 1024, 0>>
        /\ (rec.configured \/ rec.active \/ rec.captured > 0) => Recording

\* A preview of a PULSE variant is playing its graph.
C9_Witness ==
    /\ mode = "preview"
    /\ layer = "PULSE"
    /\ GraphBuilt
    /\ srv.state = "started"
    /\ audio.delivered > 0

----------------------------------------------------------------------------
(* C10 *)

\* C10: two renders of the same variant and duration, run with the same seed
\* setting, capture identical sample sequences.
C10_SameSeedSameSamples ==
    ( /\ prev # NoPrev
      /\ pc = "returned"
      /\ prev.variant = variant
      /\ prev.captured = rec.captured )
        => rec.digest = prev.digest

----------------------------------------------------------------------------
(* Worst-case amplitudes: every source at full scale, every modulator at the *)
(* extreme of its range, every filter passing its input at full level.       *)

RECURSIVE AmpPow(_, _)
AmpPow(x, n) == IF n = 0 THEN FullScale ELSE AmpMul(x, AmpPow(x, n - 1))

\* The largest magnitude node i of graph g can reach, in millionths.  A
\* modulator's range is in thousandths; Sine(freq, mul) peaks at its mul.
RECURSIVE PeakOf(_, _)
RECURSIVE SumPeaks(_, _, _)
PeakOf(g, i) ==
    LET nd == g[i]
    IN  CASE nd.op = "PinkNoise" -> FullScale
          [] nd.op = "Sine" /\ nd.in = <<>> ->
                1000 * Max(Abs(nd.par[2]), Abs(nd.par[3]))
          [] nd.op = "Sine" /\ nd.in # <<>> -> PeakOf(g, nd.in[2])
          [] nd.op = "Randi" -> 1000 * Max(Abs(nd.par[1]), Abs(nd.par[2]))
          [] nd.op = "ButBP" -> PeakOf(g, nd.in[1])
          [] nd.op = "Pow" -> AmpPow(PeakOf(g, nd.in[1]), nd.par[1])
          [] nd.op = "Gain" -> AmpMul(PeakOf(g, nd.in[1]), db_to_amp_value(nd.par[1]))
          [] nd.op = "Mul" -> AmpMul(PeakOf(g, nd.in[1]), PeakOf(g, nd.in[2]))
          [] nd.op \in {"Add", "Sum"} -> SumPeaks(g, nd.in, Len(nd.in))

SumPeaks(g, ins, k) ==
    IF k = 0 THEN 0 ELSE PeakOf(g, ins[k]) + SumPeaks(g, ins, k - 1)

PremixIndex(g) == CHOOSE i \in DOMAIN g : g[i].role = "premix"

\* A session has built the graph of a catalog variant
VariantGraphBuilt == mode \in SessionModes /\ GraphBuilt

----------------------------------------------------------------------------
(* C11 *)

\* C11: for every catalog variant the worst-case amplitude of out_sig (sources
\* at full scale, modulators at their extremes, master gain of out_db + TRIM_DB
\* applied) stays within +/-1.0 full scale.
C11_OutSigWithinFullScale ==
    VariantGraphBuilt => PeakOf(graph, Len(graph)) <= FullScale

----------------------------------------------------------------------------
(* C12 *)

\* db_to_amp(noise_db) + num_tones * db_to_amp(tone_db), and
\* db_to_amp(noise_db) + db_to_amp(pulse_db)
BranchSum(L, a) ==
    CASE L = "MICRO" ->
            db_to_amp_value(a.noise_db) + a.num_tones * db_to_amp_value(a.tone_db)
      [] L = "PULSE" -> db_to_amp_value(a.noise_db) + db_to_amp_value(a.pulse_db)

\* C12: for every MICRO and every PULSE variant the worst-case sum of the
\* branches before the master gain is at most 1.0: the premix cannot exceed
\* full scale.
C12_BranchSumWithinFullScale ==
    (VariantGraphBuilt /\ layer \in {"MICRO", "PULSE"}) =>
        /\ BranchSum(layer, args) <= FullScale
        /\ PeakOf(graph, PremixIndex(graph)) <= FullScale

----------------------------------------------------------------------------
(* C13 *)

\* C13: for every BASE variant every stage before the master gain stays within
\* full scale: with the filtered noise at full scale the premix
\* filter * amp_lfo never exceeds magnitude 1.0.
C13_BasePremixWithinFullScale ==
    (VariantGraphBuilt /\ layer = "BASE") =>
        \A i \in 1..(Len(graph) - 1) :
            graph[i].role \in {"noise", "filter", "amp_lfo", "premix"}
                => PeakOf(graph, i) <= FullScale

----------------------------------------------------------------------------
(* C14 *)

VariantsKeptStep ==
    /\ catalog = VARIANT_TABLES
    /\ catalog' = VARIANT_TABLES
    /\ (graph # <<>> /\ ~NextSessionBegins) => (graph' = graph /\ args' = args)

\* C14: no operation mutates a variant record: in every step of list, preview,
\* render and render_all (failed and interrupted sessions included) the three
\* dicts hold the names and field values the modules define, and the
\* parameters and components of a constructed graph stay as constructed until
\* its session is over.
C14_VariantsNeverMutated == [][VariantsKeptStep]_vars

\* render_all has reached the PULSE variants and is recording one of them, the
\* sessions before it having looked up and read their records.
C14_Witness ==
    /\ mode = "render_all"
    /\ layer = "PULSE"
    /\ GraphBuilt
    /\ rec.captured > 0
    /\ catalog = VARIANT_TABLES

----------------------------------------------------------------------------
(* C15 *)

\* C15: no two sessions share a graph instance or a server: the server and the
\* layer object of a preview_*_variant or render_*_variant call are objects of
\* their own, created by that call, the layer's components are created on that
\* call's server, and no object of an earlier session (the earlier sessions of
\* render_all included) is the server or the layer of a later one.
C15_SessionsShareNothing ==
    mode \in SessionModes =>
        /\ heap.server \notin heap.retired
        /\ heap.voice \notin heap.retired
        /\ heap.voiceServer \notin heap.retired
        /\ heap.voice # 0 => (heap.voiceServer = heap.server /\ heap.voice # heap.server)
        /\ (srv.state # "none") <=> (heap.server # 0)
        /\ GraphBuilt <=> (heap.voice # 0)

\* The third session of render_all plays its own graph on its own server, the
\* servers and layers of the two sessions before it being gone.
C15_Witness ==
    /\ mode = "render_all"
    /\ Cardinality(heap.retired) = 4
    /\ srv.state = "started"
    /\ GraphBuilt
    /\ heap.voice = 6

----------------------------------------------------------------------------
(* C16 *)

\* C16: when the output device fails during a live preview, the failure is
\* surfaced to the caller as a session failure and the session is terminated
\* with the server stopped and shut down: a preview whose device has failed
\* does not go on waiting for the user, and its call never ends as a normal
\* return.
C16_DeviceFailureEndsSession ==
    (mode = "preview" /\ audio.failed) =>
        /\ stopBy \notin {"enter", "eof"}
        /\ SessionOver =>
              /\ pc = "raised"
              /\ err \notin {"none", "KeyboardInterrupt", "EOFError"}
              /\ srv.state = "shutdown"

----------------------------------------------------------------------------
(* C17 *)

\* Samples handed to the device so far, a block in progress included
SamplesOut == audio.delivered * BlockSize + audio.filling

----------------------------------------------------------------------------
(* C18 *)

----------------------------------------------------------------------------
(* C19 *)

\* The objects node i of graph g reads, directly or through other objects
RECURSIVE Upstream(_, _)
Upstream(g, i) ==
    UNION { {g[i].in[k]} \cup Upstream(g, g[i].in[k]) : k \in DOMAIN g[i].in }

Modulators(g) == {i \in DOMAIN g : g[i].op = "Randi"}

Tones(g) == {i \in DOMAIN g : g[i].role = "tone"}

ModulatorRoles == {"freq_rate_lfo", "freq_lfo", "amp_freq", "amp_lfo"}

\* C19: for num_tones = N >= 0 EigenMicro constructs exactly N tone branches,
\* each with its own frequency-rate, frequency, amplitude-rate and amplitude
\* modulator and its own oscillator: N oscillators and 4N modulators exist,
\* every modulator has a seed of its own, and no modulator is read by two
\* branches.
C19_IndependentToneBranches ==
    (Constructed /\ layer = "MICRO" /\ args.num_tones >= 0) =>
        LET mods == Modulators(graph)
            tones == Tones(graph)
        IN  /\ Cardinality(tones) = args.num_tones
            /\ Cardinality(mods) = 4 * args.num_tones
            /\ \A t \in tones :
                  /\ graph[t].op = "Sine"
                  /\ Cardinality(Upstream(graph, t) \cap mods) = 4
                  /\ {graph[m].role : m \in Upstream(graph, t) \cap mods} = ModulatorRoles
            /\ \A t, u \in tones :
                  t # u => Upstream(graph, t) \cap Upstream(graph, u) = {}
            /\ \A m, n \in mods : m # n => graph[m].seed # graph[n].seed
            /\ mods \subseteq UNION {Upstream(graph, t) : t \in tones}

\* A preview of MICRO_A has built eight tone branches with thirty-two
\* modulators and is about to start its server.
C19_Witness ==
    /\ mode = "preview"
    /\ variant = "MICRO_A"
    /\ pc = "start"
    /\ Cardinality(Tones(graph)) = 8
    /\ Cardinality(Modulators(graph)) = 32

----------------------------------------------------------------------------
(* C20 *)

\* The sessions of render_all still to come, the running one included
SessionsLeft ==
    IF layer = "none" THEN queue ELSE <<<<layer, variant>>>> \o queue

IsSuffix(t, q) ==
    /\ Len(t) <= Len(q)
    /\ t = SubSeq(q, Len(q) - Len(t) + 1, Len(q))

\* C20: in the modes "list" and "render_all" main never validates or looks up
\* the -v argument, whatever its value (a name of no catalog included): no
\* unknown-variant error occurs; "list" prints the list and returns without a
\* server, a graph or a recording; "render_all" sets out to render the full
\* catalog, its sessions are the catalog's variants in order, and it returns
\* only when none is left.
C20_VariantIgnoredByListAndRenderAll ==
    /\ mode = "list" =>
          /\ pc \in {"main", "returned"}
          /\ err = "none"
          /\ srv = NoServer /\ graph = <<>> /\ rec = NoRec /\ heap = NoHeap
          /\ layer = "none"
          /\ pc = "returned" => report = <<"list">>
    /\ mode = "render_all" =>
          /\ err \notin {"ValueError", "KeyError"}
          /\ (pc = "all" /\ layer = "none") =>
                (queue = render_all_layers /\ srv = NoServer /\ graph = <<>>)
          /\ pc \notin {"main", "raised"} => IsSuffix(SessionsLeft, render_all_layers)
          /\ layer # "none" => variant \in DOMAIN VARIANTS(layer)
          /\ pc = "returned" => queue = <<>>

\* render_all was called with a -v name of no catalog and is about to render
\* the first variant of the full catalog.
C20_Witness ==
    /\ mode = "render_all"
    /\ variant = "NOPE"
    /\ pc = "all"
    /\ queue = render_all_layers

----------------------------------------------------------------------------
(* C21 *)

TRIM_DOCUMENTED(L) ==
    CASE L = "BASE" -> BASE_TRIM_DOCUMENTED
      [] L = "MICRO" -> MICRO_TRIM_DOCUMENTED
      [] L = "PULSE" -> PULSE_TRIM_DOCUMENTED

\* C21: the master gain of each layer, in decibels, is its *_OUT_DB plus the
\* trim the configuration documents (+20 dB BASE, +1 dB MICRO, +39 dB PULSE),
\* every *_OUT_DB being MASTER_OUT_DB: the trim a layer applies is the
\* documented one.
C21_TrimIsDocumentedTrim ==
    (Constructed /\ mode \in SessionModes) =>
        /\ args.out_db = MASTER_OUT_DB
        /\ OUT_DB(layer) = MASTER_OUT_DB
        /\ TRIM_DB(layer) = TRIM_DOCUMENTED(layer)
        /\ graph[Len(graph)].par = <<MASTER_OUT_DB + TRIM_DOCUMENTED(layer)>>

----------------------------------------------------------------------------
(* C22 *)

\* The three catalogs tested in the order o, the first that holds v wins
FirstMatch(o, v) ==
    IF v \in DOMAIN VARIANTS(o[1]) THEN o[1]
    ELSE IF v \in DOMAIN VARIANTS(o[2]) THEN o[2]
    ELSE IF v \in DOMAIN VARIANTS(o[3]) THEN o[3]
    ELSE "ValueError"

Orders == {o \in [1..3 -> Layers] : \A i, j \in 1..3 : i # j => o[i] # o[j]}

LookupStep ==
    (pc = "main" /\ pc' # "main" /\ mode \in {"preview", "render"}) =>
        /\ \A L \in Layers :
              (pc' = "call" /\ layer' = L) <=> variant \in DOMAIN VARIANTS(L)
        /\ (pc' = "raised" /\ err' = "ValueError" /\ layer' = "none")
              <=> variant \notin AllNames
        /\ \A L, M \in Layers :
              L # M => DOMAIN VARIANTS(L) \cap DOMAIN VARIANTS(M) = {}
        /\ \A o \in Orders, v \in Names : FirstMatch(o, v) = get_layer_for_variant(v)

\* C22: the lookup main makes for a preview or a render yields the layer L
\* exactly when the name is a key of L's catalog and raises ValueError exactly
\* when the name is a key of none; the key sets of the three catalogs are
\* pairwise disjoint, so testing them in any other order yields the same.
C22_LayerLookupExact == [][LookupStep]_vars

\* main was asked to render a name of no catalog and the lookup has raised.
C22_Witness ==
    /\ mode = "render"
    /\ layer = "none"
    /\ variant = "NOPE"
    /\ pc = "raised"
    /\ err = "ValueError"

----------------------------------------------------------------------------
(* C23 *)

\* One render session per catalog variant: 4 BASE, 4 MICRO, 5 PULSE
CatalogBatch ==
    << <<"BASE", "BASE_A">>, <<"BASE", "BASE_B">>, <<"BASE", "BASE_C">>,
       <<"BASE", "BASE_D">>,
       <<"MICRO", "MICRO_A">>, <<"MICRO", "MICRO_B">>, <<"MICRO", "MICRO_C">>,
       <<"MICRO", "MICRO_D">>,
       <<"PULSE", "PULSE_A">>, <<"PULSE", "PULSE_B">>, <<"PULSE", "PULSE_C">>,
       <<"PULSE", "PULSE_D">>, <<"PULSE", "PULSE_CRACKLE">> >>

RenderAllStep ==
    mode = "render_all" =>
        /\ (pc = "main" /\ pc' # "main") => (pc' = "all" /\ queue' = CatalogBatch)
        /\ queue' # queue => (pc = "main" \/ NextSessionBegins)
        /\ NextSessionBegins =>
              /\ srv.state \in {"none", "shutdown"}
              /\ <<layer', variant'>> = Head(queue)
              /\ queue' = Tail(queue)
              /\ srv' = NoServer /\ graph' = <<>> /\ rec' = NoRec
        /\ srv'.state \in {"booted", "started"} =>
              (heap'.server # 0 /\ heap'.server \notin heap'.retired)
        /\ (pc # "call" /\ pc' = "call") => NextSessionBegins
        /\ pc' = "returned" =>
              /\ queue' = <<>>
              /\ srv'.state = "shutdown"
              /\ heap'.next = 2 * Len(CatalogBatch) + 1
              /\ Cardinality(heap'.retired \cup {heap'.server, heap'.voice})
                    = 2 * Len(CatalogBatch)

\* C23: render_all_layers runs exactly one render session per catalog variant,
\* the four BASE variants first, then the four MICRO, then the five PULSE, each
\* in catalog order, one after the other: a session begins only when the
\* server of the session before it is shut down, so at most one server is
\* booted at any time.
C23_RenderAllSequential == [][RenderAllStep]_vars

\* The batch has returned after thirteen sessions, the last of them
\* PULSE_CRACKLE, run to completion.
C23_Witness ==
    /\ mode = "render_all"
    /\ pc = "returned"
    /\ variant = "PULSE_CRACKLE"
    /\ stopBy = "timeout"
    /\ intrAt = <<>>
    /\ Cardinality(heap.retired) = 24

----------------------------------------------------------------------------
(* C24 *)

\* The preview waits in input() with its server started
PreviewRunning == mode = "preview" /\ pc = "wait" /\ srv.state = "started"

PreviewLeavesRunningStep ==
    /\ (PreviewRunning /\ pc' # "wait") =>
          (stopBy' \in {"enter", "interrupt"} \/ audio.failed)
    /\ (mode = "preview" /\ stopBy \in {"enter", "interrupt"}
           /\ pc' \in {"returned", "raised"}) =>
          srv'.state = "shutdown"

\* C24: a live preview that waits with its server started leaves the wait only
\* by the external stop (Enter or Ctrl+C) or after a device failure, and once
\* the external stop has arrived the preview does not end before s.stop() and
\* s.shutdown() have run.
C24_PreviewLeavesOnlyByStop == [][PreviewLeavesRunningStep]_vars

----------------------------------------------------------------------------
(* C25 *)

\* The server runs before and after the step: from s.start() up to s.stop()
ServerRuns == srv.state = "started" /\ srv'.state \in {"started", "stopped"}

GraphFixedStep ==
    (mode \in SessionModes /\ ServerRuns) =>
        /\ graph' = graph
        /\ args' = args
        /\ audio'.out = audio.out
        /\ heap'.voice = heap.voice
        /\ heap'.voiceServer = heap.voiceServer
        /\ catalog' = catalog

\* C25: while the server of a session runs, from s.start() up to s.stop(), no
\* graph component is constructed, replaced, given new parameters or reset:
\* the nodes, their wiring, the constructor arguments and the voice object
\* stay what the constructor made them.
C25_GraphFixedWhileRunning == [][GraphFixedStep]_vars

\* A preview whose server was started and stopped with blocks played between.
C25_Witness ==
    /\ mode = "preview"
    /\ srv.state = "stopped"
    /\ audio.delivered = MaxPreviewBlocks
    /\ GraphBuilt
    /\ layer = "PULSE"

----------------------------------------------------------------------------
(* C26 *)

\* A signal as an expression: the operation, its range or level, its inputs.
\* Of a modulator the range [min, max] is kept, whatever its own rate.
T(op, par, in) == [op |-> op, par |-> par, in |-> in]

RECURSIVE Term(_, _)
Term(g, i) ==
    T(g[i].op,
      IF g[i].op = "Randi" THEN SubSeq(g[i].par, 1, 2) ELSE g[i].par,
      [k \in DOMAIN g[i].in |-> Term(g, g[i].in[k])])

NoiseTerm == T("PinkNoise", <<>>, <<>>)

\* A modulator over [mi, ma]; rate is the sequence of its rate inputs
Modulator(mi, ma, rate) == T("Randi", <<mi, ma>>, rate)

\* (bed + pulse) * masterGain of the reference
PulseReference(a) ==
    LET bed == T("Gain", <<a.noise_db>>, <<NoiseTerm>>)
        band == T("ButBP", <<12>>,
                  <<NoiseTerm, Modulator(a.freq_min_hz, a.freq_max_hz, <<>>)>>)
        amp == Modulator(0, 1000,
                         <<Modulator(a.pulse_rate_min, a.pulse_rate_max, <<>>)>>)
        cubed == T("Pow", <<3>>, <<amp>>)
        pulse == T("Gain", <<a.pulse_db>>, <<T("Mul", <<>>, <<band, cubed>>)>>)
    IN  T("Gain", <<a.out_db + PULSE_TRIM_DB>>, <<T("Add", <<>>, <<bed, pulse>>)>>)

\* The noise source under the bed and the noise source under the band-pass
\* (indices into the graph, read off along the inputs from out_sig)
BedNoiseIndex(g) == g[g[g[Len(g)].in[1]].in[1]].in[1]

BandNoiseIndex(g) == g[g[g[g[g[Len(g)].in[1]].in[2]].in[1]].in[1]].in[1]

\* C26: the constructed EigenPulse graph is the reference PULSE topology:
\* out_sig = (bed + pulse) * masterGain, bed = noise * db_to_amp(noise_db),
\* pulse = bandpass(noise2, centre = modulator over [freq_min_hz, freq_max_hz])
\* * amp^3 * db_to_amp(pulse_db), amp a modulator over [0, 1] whose rate is a
\* modulator over [pulse_rate_min, pulse_rate_max]; the two noise sources are
\* two objects and the amplitude is raised to the third power.
C26_PulseTopology ==
    (Constructed /\ layer = "PULSE") =>
        /\ Term(graph, Len(graph)) = PulseReference(args)
        /\ BedNoiseIndex(graph) # BandNoiseIndex(graph)
        /\ graph[BedNoiseIndex(graph)].seed # graph[BandNoiseIndex(graph)].seed

\* The graph of PULSE_CRACKLE has been built in a preview.
C26_Witness ==
    /\ Constructed
    /\ mode = "preview"
    /\ variant = "PULSE_CRACKLE"
    /\ Len(graph) = 12

----------------------------------------------------------------------------
(* C27 *)

\* One tone of the reference: an oscillator whose frequency is a modulator
\* over [freq_min_hz, freq_max_hz] driven by the freq-rate modulator, and whose
\* amplitude is amp^2 * db_to_amp(tone_db), amp a modulator over [0, 1] driven
\* by the amp-rate modulator over [amp_lfo_freq_min, amp_lfo_freq_max]
ToneReference(a) ==
    LET freq == Modulator(a.freq_min_hz, a.freq_max_hz, <<Modulator(10, 100, <<>>)>>)
        amp == Modulator(0, 1000,
                         <<Modulator(a.amp_lfo_freq_min, a.amp_lfo_freq_max, <<>>)>>)
        level == T("Gain", <<a.tone_db>>, <<T("Pow", <<2>>, <<amp>>)>>)
    IN  T("Sine", <<>>, <<freq, level>>)

MicroReference(a) ==
    LET bed == T("Gain", <<a.noise_db>>, <<NoiseTerm>>)
        tones == T("Sum", <<>>, [t \in 1..NumBranches(a.num_tones) |-> ToneReference(a)])
    IN  T("Gain", <<a.out_db + MICRO_TRIM_DB>>, <<T("Add", <<>>, <<bed, tones>>)>>)

\* C27: the constructed EigenMicro graph is the reference MICRO topology:
\* out_sig = (noise * db_to_amp(noise_db) + the sum of the N tones)
\* * masterGain, every tone an oscillator whose frequency input is the
\* frequency modulator over [freq_min_hz, freq_max_hz] (its rate the freq-rate
\* modulator) and whose amplitude is amp^2 * db_to_amp(tone_db), amp the
\* modulator over [0, 1] whose rate is the amp-rate modulator over
\* [amp_lfo_freq_min, amp_lfo_freq_max].
C27_MicroTopology ==
    (Constructed /\ layer = "MICRO") =>
        Term(graph, Len(graph)) = MicroReference(args)

\* The graph of MICRO_D has been built in a batch render.
C27_Witness ==
    /\ Constructed
    /\ mode = "render_all"
    /\ variant = "MICRO_D"
    /\ Len(graph) = 5 + 7 * args.num_tones
    /\ args.num_tones >= 2

----------------------------------------------------------------------------
(* C28 *)

\* The variants of the batch that come after variant v of layer L
RestOfBatch(L, v) ==
    LET i == CHOOSE k \in 1..Len(CatalogBatch) : CatalogBatch[k] = <<L, v>>
    IN  SubSeq(CatalogBatch, i + 1, Len(CatalogBatch))

\* One Ctrl+C, delivered during the time.sleep of a render of the batch
InterruptedInBatch == mode = "render_all" /\ intrAt = <<"wait">>

InterruptConsumed ==
    InterruptedInBatch =>
        /\ stopBy = "interrupt"
        /\ pc # "raised"
        /\ err = "none" /\ pending = "none"
        /\ queue = RestOfBatch(layer, variant)
        /\ pc \in {"all", "returned"} => (srv.state = "shutdown" /\ ~rec.active)
        /\ pc = "returned" => queue = <<>>

BatchSurvivesInterruptStep ==
    /\ InterruptConsumed'
    /\ (InterruptedInBatch /\ pc = "all") =>
          IF queue = <<>>
          THEN pc' = "returned"
          ELSE /\ pc' = "call"
               /\ <<layer', variant'>> = Head(queue)
               /\ srv' = NoServer

\* C28: a user interrupt during the wait of one variant's render inside
\* render_all ends that variant's session only: the interrupt is consumed in
\* render_*_variant, the session is shut down, and the loop goes on with the
\* next variant, every remaining variant still to be rendered.
C28_InterruptEndsOneRender == [][BatchSurvivesInterruptStep]_vars

\* The render of MICRO_B was cut short by Ctrl+C and has returned to the loop,
\* which has the rest of the batch before it.
C28_Witness ==
    /\ InterruptedInBatch
    /\ pc = "all"
    /\ variant = "MICRO_B"
    /\ srv.state = "shutdown"
    /\ Len(queue) = 7

----------------------------------------------------------------------------
(* C29 *)

\* The operations of a session, each told by what it changes
OpBoot == srv.state = "none" /\ srv'.state = "booted"
OpConstruct == graph = <<>> /\ graph' # <<>>
OpRecordOptions == ~rec.configured /\ rec'.configured
OpStart == srv.state # "started" /\ srv'.state = "started"
OpRecstart == ~rec.active /\ rec'.active
OpRecstop == pc = "fin_recstop" /\ pc' = "fin_stop"
OpStop == srv.state # "stopped" /\ srv'.state = "stopped"
OpShutdown == srv.state # "shutdown" /\ srv'.state = "shutdown"

RenderOrderStep ==
    /\ OpBoot => (pc = "boot" /\ graph = <<>> /\ rec = NoRec)
    /\ OpConstruct => (srv.state = "booted" /\ ~rec.configured)
    /\ OpRecordOptions => (srv.state = "booted" /\ graph # <<>> /\ ~rec.active)
    /\ OpStart => (srv.state = "booted" /\ graph # <<>> /\ rec.configured
                     /\ ~rec.active)
    /\ OpRecstart => (srv.state = "started" /\ rec.configured /\ pc' = "wait")
    /\ (pc # "wait" /\ pc' = "wait") => OpRecstart
    /\ (pc # "fin_recstop" /\ pc' = "fin_recstop") => pc \in {"wait", "except"}
    /\ OpRecstop => (srv.state = "started" /\ rec.active /\ ~rec'.active)
    /\ (rec.active /\ ~rec'.active) => OpRecstop
    /\ (pc # "fin_stop" /\ pc' = "fin_stop") => OpRecstop
    /\ OpStop => (pc = "fin_stop" /\ srv.state = "started" /\ ~rec.active
                    /\ rec.configured)
    /\ OpShutdown => (pc = "fin_shutdown" /\ srv.state = "stopped" /\ ~rec.active)

PreviewOrderStep ==
    /\ OpStop => (pc = "fin_stop" /\ srv.state = "started")
    /\ OpShutdown => (pc = "fin_shutdown" /\ srv.state = "stopped")
    /\ rec = NoRec /\ rec' = NoRec
    /\ ~OpRecstart /\ ~OpRecstop /\ ~OpRecordOptions
    /\ pc' \notin {"recopt", "recstart", "fin_recstop"}

OperationOrderStep ==
    /\ (Recording /\ ~NextSessionBegins) => RenderOrderStep
    /\ mode = "preview" => PreviewOrderStep

\* C29: in every render session the operations occur in the order boot,
\* construction, recordOptions, start, recstart, wait, recstop, stop,
\* shutdown: the recording never starts before the server is started, recstop
\* comes before stop and stop before shutdown, also when the wait is
\* interrupted; in every preview stop comes before shutdown and neither
\* recstart nor recstop ever occurs.
C29_OperationOrder == [][OperationOrderStep]_vars

\* A render whose sleep was interrupted has gone through recstop, stop and
\* shutdown with part of the recording captured.
C29_Witness ==
    /\ mode = "render"
    /\ intrAt = <<"wait">>
    /\ pc = "done"
    /\ srv.state = "shutdown"
    /\ rec.configured /\ ~rec.active
    /\ rec.captured > 0
    /\ rec.captured < totalSamples

----------------------------------------------------------------------------
(* C30 *)

Nyquist == SAMPLE_RATE \div 2

\* amp_lfo_depth is held in thousandths, the rates in thousandths of a Hz
ValidVariant(L, p) ==
    CASE L = "BASE" ->
            /\ p.center_freq_hz - p.drift_depth_hz > 0
            /\ p.center_freq_hz + p.drift_depth_hz < Nyquist
            /\ p.drift_period_sec > 0
            /\ p.amp_lfo_period_sec > 0
            /\ p.amp_lfo_depth >= 0 /\ p.amp_lfo_depth <= 1000
      [] L = "MICRO" ->
            /\ 0 < p.freq_min_hz /\ p.freq_min_hz < p.freq_max_hz
            /\ p.freq_max_hz < Nyquist
            /\ 0 < p.amp_lfo_freq_min /\ p.amp_lfo_freq_min < p.amp_lfo_freq_max
            /\ p.num_tones >= 1
      [] L = "PULSE" ->
            /\ 0 < p.freq_min_hz /\ p.freq_min_hz < p.freq_max_hz
            /\ p.freq_max_hz < Nyquist
            /\ 0 < p.pulse_rate_min /\ p.pulse_rate_min < p.pulse_rate_max

\* The lowest value a frequency or rate input of node n is given
LowestFrequency(n) ==
    CASE n.role = "freq_lfo" /\ n.op = "Sine" -> IF n.par[1] < n.par[2] THEN n.par[1]
                                                                        ELSE n.par[2]
      [] n.role = "amp_lfo" /\ n.op = "Sine" -> n.par[1]
      [] n.role \in {"freq_lfo", "freq_rate_lfo", "amp_freq", "pulse_rate"}
            /\ n.op = "Randi" -> n.par[1]
      [] OTHER -> 1

\* C30: every variant of the three catalogs is a valid parameter set (BASE:
\* centre - depth > 0, centre + depth below SAMPLE_RATE / 2, positive periods,
\* amp_lfo_depth within [0, 1]; MICRO and PULSE: 0 < freq_min < freq_max <
\* SAMPLE_RATE / 2 and 0 < rate min < rate max; MICRO: at least one tone), so
\* the construction of a session never divides by zero and gives no
\* oscillator, modulator or filter a frequency that is not positive.
C30_CatalogVariantsValid ==
    /\ \A L \in Layers :
          /\ DOMAIN VARIANTS(L) = Range(KEYS(L))
          /\ \A v \in DOMAIN VARIANTS(L) : ValidVariant(L, VARIANTS(L)[v])
    /\ mode \in SessionModes =>
          /\ err # "ZeroDivisionError"
          /\ Constructed =>
                /\ ValidVariant(layer, args)
                /\ \A i \in DOMAIN graph : LowestFrequency(graph[i]) > 0

\* The graph of BASE_D, the variant with the deepest drift, has been built.
C30_Witness ==
    /\ Constructed
    /\ mode = "render"
    /\ variant = "BASE_D"
    /\ graph[2].par[2] = 400

====
